---- MODULE Spec2Model ----
(***************************************************************************)
(* A model of the AION service clients (src/aion): HuggingFaceClient, the  *)
(* two HuggingFaceSpaceClient classes (huggingface_client.py and           *)
(* spaces_client.py) and CloudflareClient.  Every public operation is one  *)
(* action: it builds the request, hands it to urlopen, whose outcome is    *)
(* drawn from Responses, and maps that outcome to a returned value or a    *)
(* raised exception exactly as the try/except blocks of the source do.     *)
(*                                                                         *)
(* Text and bytes are sequences of tokens (one-character strings, plus a   *)
(* few multi-character literals such as host names); BAD is a byte that is *)
(* not valid UTF-8.  Optional values are sequences: <<>> is None and <<x>> *)
(* is the value x.                                                         *)
(***************************************************************************)
EXTENDS Integers, Sequences, FiniteSets, TLC

VARIABLES client, op, resp, req, sent, out, fs

vars == <<client, op, resp, req, sent, out, fs>>

(***************************************************************************)
(* Bounds of the model.                                                    *)
(***************************************************************************)
MaxIdLen == 3

(***************************************************************************)
(* Python values.                                                          *)
(***************************************************************************)
None == <<>>

Some(x) == <<x>>

\* bool(x) of an Optional[str]: None and "" are falsy
TruthyOpt(o) == o # None /\ o[1] # ""

\* str(x) of an Optional[str], as an f-string formats it
StrOpt(o) == IF o = None THEN "None" ELSE o[1]

\* a or b, on texts: the empty text is falsy
OrElse(a, b) == IF a # <<>> THEN a ELSE b

RECURSIVE Concat(_)
Concat(ss) == IF ss = <<>> THEN <<>> ELSE Head(ss) \o Concat(Tail(ss))

RECURSIVE LStrip(_, _)
\* s.lstrip(c)
LStrip(s, c) == IF s # <<>> /\ Head(s) = c THEN LStrip(Tail(s), c) ELSE s

(***************************************************************************)
(* Bytes, UTF-8 and JSON.  A JSON member value is an atom, written as its  *)
(* JSON text; "absent" says the object has no such key.                    *)
(***************************************************************************)
BAD == "\\xff"

Absent == "absent"

\* bytes.decode("utf-8"): fails on a byte that is no UTF-8
Utf8Ok(b) == \A i \in 1..Len(b) : b[i] # BAD

\* bytes.decode("utf-8", errors="ignore"): drops such bytes
DecodeIgnore(b) == SelectSeq(b, LAMBDA t : t # BAD)

SuccessAtoms == {Absent, "true", "false", "1"}

ErrorsAtoms == {Absent, "[]", "[{\"code\":7}]"}

\* Python truthiness of a decoded member
FalsyAtoms == {"false", "null", "0", "[]", "{}", "\"\""}

Truthy(a) == a \notin FalsyAtoms

\* str(x) of a decoded member: Python's repr of lists and dicts, the string itself
PyStr(a) ==
  CASE a = "[{\"code\":7}]" -> <<"[{'code': 7}]">>
    [] a = "\"boom\"" -> <<"b", "o", "o", "m">>
    [] a = "[]" -> <<"[", "]">>
    [] a = "[1]" -> <<"[", "1", "]">>
    [] a = "true" -> <<"True">>
    [] a = "false" -> <<"False">>
    [] a = "null" -> <<"None">>
    [] OTHER -> <<a>>

JObj(s, e, r) == [t |-> "obj", success |-> s, errors |-> e, result |-> r]

JArr(items) == [t |-> "arr", items |-> items]

JLit(v) == [t |-> "lit", v |-> v]

EmptyDict == JObj(Absent, Absent, Absent)

PyNone == JLit("null")

\* the envelopes: every success and errors member, with a result; and two without
JsonObjects ==
  {JObj(s, e, "[1]") : s \in SuccessAtoms, e \in ErrorsAtoms}
    \cup {EmptyDict, JObj("true", Absent, Absent), JObj("false", "\"boom\"", Absent)}

JsonValues == JsonObjects \cup {JArr(<<>>), JArr(<<"1">>), PyNone, JLit("7")}

\* dict.get(key, default) on a decoded object
DictGet(member, default) == IF member = Absent THEN default ELSE member

Member(key, a) == IF a = Absent THEN <<>> ELSE << <<key, ":", a>> >>

RECURSIVE Join(_, _)
Join(parts, sep) ==
  IF parts = <<>> THEN <<>>
  ELSE IF Len(parts) = 1 THEN parts[1]
  ELSE parts[1] \o <<sep>> \o Join(Tail(parts), sep)

\* json.dumps(v), as tokens
Dumps(v) ==
  CASE v.t = "obj" ->
         <<"{">> \o Join(Member("\"success\"", v.success) \o Member("\"errors\"", v.errors)
                          \o Member("\"result\"", v.result), ",") \o <<"}">>
    [] v.t = "arr" -> <<"[">> \o Join([i \in 1..Len(v.items) |-> <<v.items[i]>>], ",") \o <<"]">>
    [] OTHER -> <<v.v>>

\* the JSON text of every value
JsonText == [v \in JsonValues |-> Dumps(v)]

\* json.loads(text) succeeds: the text is the JSON text of a value (else JSONDecodeError)
IsJson(text) == \E v \in JsonValues : JsonText[v] = text

\* json.loads(text): the value whose JSON text this is
JsonLoads(text) == CHOOSE v \in JsonValues : JsonText[v] = text

(***************************************************************************)
(* urllib.parse: quote, quote_plus, urlencode.                             *)
(***************************************************************************)
\* characters quote never escapes: letters, digits and "_.-~"
AlwaysSafe == {"a", "b", "c", "d", "k", "q", "v", "x", "0", "1", "2", "3", "5", "7",
               "B", "D", "F", "_", ".", "-", "~",
               "per_page", "50", "name", "limit", "10", "author", "main", "production",
               "darkfrostx", "neuro-mechanism-backend", "ssra-auditor"}

\* the percent-escape of a reserved character
PctEncode(c) ==
  CASE c = "/" -> <<"%", "2", "F">>
    [] c = "%" -> <<"%", "2", "5">>
    [] c = " " -> <<"%", "2", "0">>
    [] c = "?" -> <<"%", "3", "F">>
    [] c = "#" -> <<"%", "2", "3">>
    [] c = "=" -> <<"%", "3", "D">>
    [] c = "&" -> <<"%", "2", "6">>
    [] c = "+" -> <<"%", "2", "B">>

RECURSIVE Quote(_, _)
\* parse.quote(s, safe=safe)
Quote(s, safe) ==
  IF s = <<>> THEN <<>>
  ELSE (IF Head(s) \in AlwaysSafe \cup safe THEN <<Head(s)>> ELSE PctEncode(Head(s)))
       \o Quote(Tail(s), safe)

\* parse.quote_plus(s): a space becomes "+", everything else as quote(s, safe="")
QuotePlus(s) ==
  LET q == Quote(s, {" "}) IN [i \in 1..Len(q) |-> IF q[i] = " " THEN "+" ELSE q[i]]

\* one "key=value" component per value of a parameter
ParamPairs(p) == [i \in 1..Len(p.vals) |-> QuotePlus(p.key) \o <<"=">> \o QuotePlus(p.vals[i])]

\* parse.urlencode(params, doseq=True); params is the dict's items in order
UrlEncode(params) ==
  Join(Concat([i \in 1..Len(params) |-> ParamPairs(params[i])]), "&")

(***************************************************************************)
(* urllib.request: the request object and what urlopen can do with it.     *)
(***************************************************************************)
NoReq == [url |-> <<>>, method |-> "", headers |-> <<>>, data |-> None]

\* Request.get_method(): the method given, else POST with a body and GET without
GetMethod(method, data) ==
  IF method # None THEN method[1] ELSE IF data # None THEN "POST" ELSE "GET"

Request(url, data, headers, method) ==
  [url |-> url, method |-> GetMethod(method, data), headers |-> headers, data |-> data]

HasHeader(r, name) == name \in DOMAIN r.headers

\* class hierarchy of the exceptions involved (urllib.error, builtins, json)
Parent(cls) ==
  CASE cls = "HTTPError" -> "URLError"
    [] cls = "URLError" -> "OSError"
    [] cls = "TimeoutError" -> "OSError"
    [] cls = "JSONDecodeError" -> "ValueError"
    [] cls = "UnicodeDecodeError" -> "ValueError"
    [] cls = "APIError" -> "RuntimeError"
    [] cls = "IsADirectoryError" -> "OSError"
    [] cls = "SystemExit" -> "BaseException"
    [] cls = "Exception" -> "BaseException"
    [] OTHER -> "Exception"

RECURSIVE IsInstance(_, _)
IsInstance(cls, target) ==
  cls = target \/ (cls # "BaseException" /\ IsInstance(Parent(cls), target))

NoResp == [k |-> "none", code |-> 0, reason |-> <<>>, body |-> <<>>]

\* urlopen cannot connect (refused, DNS, timeout while connecting): URLError
UrlErrors ==
  {[k |-> "URLError", code |-> 0, reason |-> <<r>>, body |-> <<>>] : r \in {"refused", "timed out"}}

\* the socket times out while the response is awaited or its body read: a bare TimeoutError
ReadTimeouts == {[k |-> "TimeoutError", code |-> 0, reason |-> <<"timed out">>, body |-> <<>>]}

ErrBodies == {<<>>, <<"n", "o">>, <<BAD>>, <<"n", BAD, "o">>, Dumps(JObj("false", Absent, Absent))}

HttpError(code, reason, body) == [k |-> "HTTPError", code |-> code, reason |-> <<reason>>, body |-> body]

HttpErrors ==
  {HttpError(404, "Not Found", b) : b \in ErrBodies}
    \cup {HttpError(500, "Internal Server Error", <<>>)}

OkBodies ==
  {Dumps(v) : v \in JsonValues}
    \cup {<<>>, <<"b", "i", "n">>, <<"{">>, <<BAD>>, <<"b", BAD>>}

Ok(body) == [k |-> "ok", code |-> 200, reason |-> <<"OK">>, body |-> body]

OkResponses == {Ok(b) : b \in OkBodies}

Failures == UrlErrors \cup ReadTimeouts \cup HttpErrors

Responses == Failures \cup OkResponses

\* what a file download can answer
FileBodies == {<<>>, <<"b", "i", "n">>, <<BAD>>}

FileResponses == Failures \cup {Ok(b) : b \in FileBodies}

(***************************************************************************)
(* Outcomes of an operation, and aion.exceptions.APIError.                 *)
(***************************************************************************)
NoValue == [t |-> "none"]

\* __post_init__ with "if self.status" for "is not None": status 0 is left out
PostInit_StatusTruthy(service, message, status) ==
  <<service, " API error: ">> \o message
    \o (IF status # None /\ status[1] # 0 THEN <<" (status: ", ToString(status[1]), ")">>
        ELSE <<>>)

\* APIError.__post_init__: the text handed to RuntimeError.__init__, which str(exc) gives
PostInit(service, message, status) ==
  <<service, " API error: ">> \o message
    \o (IF status # None THEN <<" (status: ", ToString(status[1]), ")">> ELSE <<>>)

\* an outcome: a value returned or an exception raised; text is str(exc)
APIError(service, message, status) ==
  [kind |-> "raise", exc |-> "APIError", service |-> service, message |-> message,
   status |-> status, value |-> NoValue, text |-> PostInit(service, message, status)]

\* any other exception: it carries no service and no status
Raise(cls, message) ==
  [kind |-> "raise", exc |-> cls, service |-> "", message |-> message,
   status |-> None, value |-> NoValue, text |-> message]

Return(v) ==
  [kind |-> "return", exc |-> "", service |-> "", message |-> <<>>,
   status |-> None, value |-> v, text |-> <<>>]

Py(v) == [t |-> "py", v |-> v]

PyMember(a) == [t |-> "member", v |-> a]

Bytes(b) == [t |-> "bytes", v |-> b]

Str(s) == [t |-> "str", v |-> s]

NoOutcome == Return(NoValue)

\* "with closing(urlopen(req)) as resp: <body>": urlopen raises, or the body runs
Urlopen(r, body) == IF r.k = "ok" THEN body ELSE Raise(r.k, r.reason)

\* the handlers in the wrong order: URLError, the base class, is tried first
ExceptHandlers_UrlErrorFirst(service, r, o) ==
  IF o.kind = "raise" /\ IsInstance(o.exc, "URLError")
    THEN APIError(service, r.reason, None)
  ELSE IF o.kind = "raise" /\ IsInstance(o.exc, "HTTPError")
    THEN APIError(service, OrElse(DecodeIgnore(r.body), r.reason), Some(r.code))
  ELSE o

\* the handlers every client puts after its try block:
\*   except error.HTTPError as exc: message = exc.read().decode("utf-8", errors="ignore") or exc.reason
\*                                  raise APIError(service, message, status=exc.code)
\*   except error.URLError as exc:  raise APIError(service, str(exc.reason))
ExceptHandlers(service, r, o) ==
  IF o.kind = "raise" /\ IsInstance(o.exc, "HTTPError")
    THEN APIError(service, OrElse(DecodeIgnore(r.body), r.reason), Some(r.code))
  ELSE IF o.kind = "raise" /\ IsInstance(o.exc, "URLError")
    THEN APIError(service, r.reason, None)
  ELSE o

NoHeaders == [h \in {} |-> <<>>]

(***************************************************************************)
(* Inputs of the operations.                                               *)
(***************************************************************************)
\* the identifier the operations are called with: one with a "/" inside
SlashId == <<"a", "/", "b">>

\* an optional filter (name, author): None, "", "a"
OptNames == {None, Some(<<>>), Some(<<"a">>)}

(***************************************************************************)
(* CloudflareClient (cloudflare_client.py).                                *)
(***************************************************************************)
CfService == "Cloudflare"

CfBaseUrl == <<"https:", "/", "/", "api.cloudflare.com", "/", "client", "/", "v4">>

CfClients ==
  {[cls |-> "CloudflareClient", token |-> t, account_id |-> a, space_id |-> <<>>] :
     t \in {Some(""), Some("tok")}, a \in {None, Some(""), Some("acct")}}

CfBuildHeaders(c, content_type, accept) ==
  ("Authorization" :> <<"Bearer ", StrOpt(c.token)>>)
    @@ (IF TruthyOpt(content_type) THEN "Content-Type" :> <<content_type[1]>> ELSE NoHeaders)
    @@ (IF TruthyOpt(accept) THEN "Accept" :> <<accept[1]>> ELSE NoHeaders)

\* _parse_response without the check of the envelope's success flag
CfParseResponse_NoSuccessCheck(payload) ==
  IF ~IsJson(payload) THEN APIError(CfService, <<"Invalid JSON response">>, None)
  ELSE LET data == JsonLoads(payload) IN
    IF data.t # "obj" THEN Raise("AttributeError", <<"object has no attribute 'get'">>)
    ELSE Return(Py(data))

CfParseResponse(payload) ==
  IF ~IsJson(payload) THEN APIError(CfService, <<"Invalid JSON response">>, None)
  ELSE LET data == JsonLoads(payload) IN
    IF data.t # "obj" THEN Raise("AttributeError", <<"object has no attribute 'get'">>)
    ELSE IF ~Truthy(DictGet(data.success, "false"))
      THEN APIError(CfService,
                    IF Truthy(DictGet(data.errors, "null")) THEN PyStr(data.errors)
                    ELSE <<"Unknown error">>,
                    None)
    ELSE Return(Py(data))

\* _request: the request it sends and the outcome, given what urlopen does
CfRequest(c, url, data, method, content_type, r) ==
  [req |-> Request(url, data, CfBuildHeaders(c, Some(content_type), None), method),
   out |-> ExceptHandlers(CfService, r,
             Urlopen(r, IF Utf8Ok(r.body) THEN CfParseResponse(r.body)
                        ELSE Raise("UnicodeDecodeError", <<>>)))]

\* data.get("result", default) on what _request returned
ResultOf(o, default) ==
  IF o.kind = "return" THEN Return(PyMember(DictGet(o.value.v.result, default))) ELSE o

CfAccountUrl(account_id) == CfBaseUrl \o <<"/", "accounts", "/", StrOpt(account_id)>>

\* an operation that called urlopen once
Called(name, args, r, rq, o) ==
  /\ op' = [name |-> name, args |-> args]
  /\ resp' = r
  /\ req' = rq
  /\ sent' = 1
  /\ out' = o

\* an operation that raised before it built a request
Refused(name, args, o) ==
  /\ op' = [name |-> name, args |-> args]
  /\ resp' = NoResp
  /\ req' = NoReq
  /\ sent' = 0
  /\ out' = o

\* a call that sends its request a second time when the first attempt failed
Did_Retry(r, rq, o) ==
  [resp |-> r, req |-> rq, sent |-> IF o.kind = "raise" THEN 2 ELSE 1, out |-> o]

\* what one call of an operation did: the request it sent, the answer, its outcome
Did(r, rq, o) == [resp |-> r, req |-> rq, sent |-> 1, out |-> o]

\* a call that raised before it built a request
NotSent(o) == [resp |-> NoResp, req |-> NoReq, sent |-> 0, out |-> o]

Do(name, args, e) ==
  /\ op' = [name |-> name, args |-> args]
  /\ resp' = e.resp
  /\ req' = e.req
  /\ sent' = e.sent
  /\ out' = e.out

\* list_zones(name) on client c, urlopen doing r
ListZonesCall(c, name, r) ==
  LET params == << [key |-> <<"per_page">>, vals |-> << <<"50">> >>] >>
                  \o (IF name # None /\ name[1] # <<>>
                      THEN << [key |-> <<"name">>, vals |-> <<name[1]>>] >> ELSE <<>>)
      query == UrlEncode(params)
      url == IF query # <<>> THEN CfBaseUrl \o <<"/", "zones", "?">> \o query
             ELSE CfBaseUrl \o <<"/", "zones">>
      x == CfRequest(c, url, None, None, "application/json", r)
  IN Did(r, x.req, ResultOf(x.out, "[]"))

list_zones(names, rs) ==
  /\ client.cls = "CloudflareClient"
  /\ \E name \in names, r \in rs :
       Do("list_zones", [name |-> name], ListZonesCall(client, name, r))
  /\ UNCHANGED <<client, fs>>

CreateKvNamespaceCall(c, title, r) ==
  IF ~TruthyOpt(c.account_id)
  THEN NotSent(Raise("ValueError", <<"account_id is required for KV operations">>))
  ELSE LET payload == <<"{", "\"title\"", ":", "\"">> \o title \o <<"\"", "}">>
           url == CfAccountUrl(c.account_id) \o <<"/", "storage", "/", "kv", "/", "namespaces">>
           x == CfRequest(c, url, Some(payload), None, "application/json", r)
       IN Did(r, x.req, ResultOf(x.out, "{}"))

create_kv_namespace(ids, rs) ==
  /\ client.cls = "CloudflareClient"
  /\ \E title \in ids, r \in rs :
       Do("create_kv_namespace", [title |-> title], CreateKvNamespaceCall(client, title, r))
  /\ UNCHANGED <<client, fs>>

\* write_kv_value sending the value as a JSON body (_request's default content type)
WriteKvValueCall_JsonContentType(c, namespace_id, key, value, r) ==
  IF ~TruthyOpt(c.account_id)
  THEN NotSent(Raise("ValueError", <<"account_id is required for KV operations">>))
  ELSE LET encoded_key == Quote(key, {})
           url == CfAccountUrl(c.account_id)
                    \o <<"/", "storage", "/", "kv", "/", "namespaces", "/">>
                    \o namespace_id \o <<"/", "values", "/">> \o encoded_key
           x == CfRequest(c, url, Some(value), Some("PUT"), "application/json", r)
       IN Did(r, x.req, x.out)

WriteKvValueCall(c, namespace_id, key, value, r) ==
  IF ~TruthyOpt(c.account_id)
  THEN NotSent(Raise("ValueError", <<"account_id is required for KV operations">>))
  ELSE LET encoded_key == Quote(key, {})
           url == CfAccountUrl(c.account_id)
                    \o <<"/", "storage", "/", "kv", "/", "namespaces", "/">>
                    \o namespace_id \o <<"/", "values", "/">> \o encoded_key
           x == CfRequest(c, url, Some(value), Some("PUT"), "text/plain", r)
       IN Did(r, x.req, x.out)

write_kv_value(ids, rs) ==
  /\ client.cls = "CloudflareClient"
  /\ \E namespace_id \in ids, key \in ids, value \in {<<"v">>}, r \in rs :
       Do("write_kv_value", [namespace_id |-> namespace_id, key |-> key, value |-> value],
          WriteKvValueCall(client, namespace_id, key, value, r))
  /\ UNCHANGED <<client, fs>>

\* _require_account_id testing "is None" instead of "not": "" passes
RequireAccountId_NoneOnly(c) ==
  IF c.account_id = None
  THEN Raise("ValueError", <<"account_id is required for this operation">>)
  ELSE NoOutcome

\* _require_account_id: the error it raises, if any
RequireAccountId(c) ==
  IF ~TruthyOpt(c.account_id)
  THEN Raise("ValueError", <<"account_id is required for this operation">>)
  ELSE NoOutcome

list_worker_services(rs) ==
  /\ client.cls = "CloudflareClient"
  /\ \E r \in rs :
       IF RequireAccountId(client).kind = "raise"
       THEN Refused("list_worker_services", [none |-> None], RequireAccountId(client))
       ELSE LET url == CfAccountUrl(client.account_id) \o <<"/", "workers", "/", "services">>
                x == CfRequest(client, url, None, None, "application/json", r)
            IN Called("list_worker_services", [none |-> None], r, x.req, ResultOf(x.out, "[]"))
  /\ UNCHANGED <<client, fs>>

get_worker_service(ids, rs) ==
  /\ client.cls = "CloudflareClient"
  /\ \E service \in ids, r \in rs :
       IF RequireAccountId(client).kind = "raise"
       THEN Refused("get_worker_service", [service |-> service], RequireAccountId(client))
       ELSE LET url == CfAccountUrl(client.account_id)
                         \o <<"/", "workers", "/", "services", "/">> \o Quote(service, {})
                x == CfRequest(client, url, None, None, "application/json", r)
            IN Called("get_worker_service", [service |-> service], r, x.req,
                      ResultOf(x.out, "{}"))
  /\ UNCHANGED <<client, fs>>

list_worker_service_environments(ids, rs) ==
  /\ client.cls = "CloudflareClient"
  /\ \E service \in ids, r \in rs :
       IF RequireAccountId(client).kind = "raise"
       THEN Refused("list_worker_service_environments", [service |-> service],
                    RequireAccountId(client))
       ELSE LET url == CfAccountUrl(client.account_id)
                         \o <<"/", "workers", "/", "services", "/">> \o Quote(service, {})
                         \o <<"/", "environments">>
                x == CfRequest(client, url, None, None, "application/json", r)
            IN Called("list_worker_service_environments", [service |-> service], r, x.req,
                      ResultOf(x.out, "[]"))
  /\ UNCHANGED <<client, fs>>

get_worker_service_script(ids, rs) ==
  /\ client.cls = "CloudflareClient"
  /\ \E service \in ids, environment \in {<<"production">>}, r \in rs :
       LET args == [service |-> service, environment |-> environment] IN
       IF RequireAccountId(client).kind = "raise"
       THEN Refused("get_worker_service_script", args, RequireAccountId(client))
       ELSE LET url == CfAccountUrl(client.account_id)
                         \o <<"/", "workers", "/", "services", "/">> \o Quote(service, {})
                         \o <<"/", "environments", "/">> \o Quote(environment, {})
                         \o <<"/", "content">>
                headers == CfBuildHeaders(client, None, Some("application/javascript"))
                o == ExceptHandlers(CfService, r,
                       Urlopen(r, IF Utf8Ok(r.body) THEN Return(Str(r.body))
                                  ELSE Raise("UnicodeDecodeError", <<>>)))
            IN Called("get_worker_service_script", args, r,
                      Request(url, None, headers, None), o)
  /\ UNCHANGED <<client, fs>>

CloudflareOps(names, ids, rs) ==
  \/ list_zones(names, rs)
  \/ create_kv_namespace(ids, rs)
  \/ write_kv_value(ids, rs)
  \/ list_worker_services(rs)
  \/ get_worker_service(ids, rs)
  \/ list_worker_service_environments(ids, rs)
  \/ get_worker_service_script(ids, rs)

(***************************************************************************)
(* The local file system download_file writes to: one destination path,    *)
(* whose parent directory may not exist yet.                               *)
(***************************************************************************)
Destination == "out/model/config.json"

NoFiles == [parent |-> FALSE, file |-> None]

FsInits == {NoFiles, [parent |-> TRUE, file |-> Some(<<"o", "l", "d">>)]}

\* destination_path.parent.mkdir(parents=True, exist_ok=True); destination_path.write_bytes(content)
WriteFile(f, content) == [parent |-> TRUE, file |-> Some(content)]

(***************************************************************************)
(* HuggingFaceClient (huggingface_client.py).                              *)
(***************************************************************************)
HfService == "Hugging Face"

HfBaseUrl == <<"https:", "/", "/", "huggingface.co">>

Tokens == {None, Some(""), Some("secret")}

HfClients ==
  {[cls |-> "HuggingFaceClient", token |-> t, account_id |-> None, space_id |-> <<>>] :
     t \in Tokens}

\* _build_headers testing "is not None" instead of truthiness: "" gets a header
HfBuildHeaders_NotNone(c) ==
  ("Accept" :> <<"application/json">>)
    @@ (IF c.token # None THEN "Authorization" :> <<"Bearer ", StrOpt(c.token)>>
        ELSE NoHeaders)

\* _build_headers of HuggingFaceClient and of huggingface_client.HuggingFaceSpaceClient
HfBuildHeaders(c) ==
  ("Accept" :> <<"application/json">>)
    @@ (IF TruthyOpt(c.token) THEN "Authorization" :> <<"Bearer ", StrOpt(c.token)>>
        ELSE NoHeaders)

\* json.load(resp): reads the body, decodes it and parses it
JsonLoad(body) ==
  IF ~Utf8Ok(body) THEN Raise("UnicodeDecodeError", <<>>)
  ELSE IF ~IsJson(body) THEN Raise("JSONDecodeError", <<"Expecting value">>)
  ELSE Return(Py(JsonLoads(body)))

HfGetJson(c, url, r) ==
  [req |-> Request(url, None, HfBuildHeaders(c), None),
   out |-> ExceptHandlers(HfService, r, Urlopen(r, JsonLoad(r.body)))]

HfGetBytes(c, url, r) ==
  [req |-> Request(url, None, HfBuildHeaders(c), None),
   out |-> ExceptHandlers(HfService, r, Urlopen(r, Return(Bytes(r.body))))]

ListModelsCall(c, author, limit, r) ==
  LET params == << [key |-> <<"limit">>, vals |-> << <<limit>> >>] >>
                  \o (IF author # None /\ author[1] # <<>>
                      THEN << [key |-> <<"author">>, vals |-> <<author[1]>>] >> ELSE <<>>)
      query == UrlEncode(params)
      url == IF query # <<>> THEN HfBaseUrl \o <<"/", "api", "/", "models", "?">> \o query
             ELSE HfBaseUrl \o <<"/", "api", "/", "models">>
      x == HfGetJson(c, url, r)
  IN Did(r, x.req, x.out)

list_models(names, rs) ==
  /\ client.cls = "HuggingFaceClient"
  /\ \E author \in names, limit \in {"10"}, r \in rs :
       Do("list_models", [author |-> author, limit |-> limit],
          ListModelsCall(client, author, limit, r))
  /\ UNCHANGED <<client, fs>>

ModelCardPrefix == HfBaseUrl \o <<"/", "api", "/", "models", "/">>

\* parse.quote(model_id) with its default safe="/": the "/" of the id is kept
ModelCardUrl_DefaultSafe(model_id) == ModelCardPrefix \o Quote(model_id, {"/"})

ModelCardUrl(model_id) == ModelCardPrefix \o Quote(model_id, {})

GetModelCardCall(c, model_id, r) ==
  LET x == HfGetJson(c, ModelCardUrl(model_id), r) IN Did(r, x.req, x.out)

get_model_card(ids, rs) ==
  /\ client.cls = "HuggingFaceClient"
  /\ \E model_id \in ids, r \in rs :
       Do("get_model_card", [model_id |-> model_id], GetModelCardCall(client, model_id, r))
  /\ UNCHANGED <<client, fs>>

\* download_file on client c and file system f: what the call did, and the file system after
DownloadFileCall(c, f, repo_id, filename, revision, destination, r) ==
  LET normalized_filename == LStrip(filename, "/")
      url == HfBaseUrl \o <<"/">> \o Quote(repo_id, {}) \o <<"/", "resolve", "/">>
               \o Quote(revision, {}) \o <<"/">> \o Quote(normalized_filename, {"/"})
      x == HfGetBytes(c, url, r)
  IN IF x.out.kind = "return" /\ destination # None
     THEN [did |-> Did(r, x.req, Return([t |-> "path", v |-> destination[1]])),
           fs |-> WriteFile(f, x.out.value.v)]
     ELSE [did |-> Did(r, x.req, x.out), fs |-> f]

download_file(ids, rs) ==
  /\ client.cls = "HuggingFaceClient"
  /\ \E repo_id \in ids, filename \in {<<"/", "d", "/", "a">>},
        revision \in {<<"main">>}, destination \in {None, Some(Destination)}, r \in rs :
       LET e == DownloadFileCall(client, fs, repo_id, filename, revision, destination, r)
       IN /\ Do("download_file",
                [repo_id |-> repo_id, filename |-> filename, revision |-> revision,
                 destination |-> destination], e.did)
          /\ fs' = e.fs
  /\ UNCHANGED client

HuggingFaceOps(names, ids, rs, files) ==
  \/ list_models(names, rs)
  \/ get_model_card(ids, rs)
  \/ download_file(ids, files)

(***************************************************************************)
(* huggingface_client.HuggingFaceSpaceClient: a Space reached through the  *)
(* Hub, <base>/spaces/<space_id>/<path>.                                   *)
(***************************************************************************)
SpaceService == "Hugging Face Space"

HubSpaceCls == "huggingface_client.HuggingFaceSpaceClient"

HubSpaceClients(ids) ==
  {[cls |-> HubSpaceCls, token |-> t, account_id |-> None, space_id |-> s] :
     t \in Tokens, s \in ids}

SamplePaths == {<<>>, <<"/", "x">>, <<"x", "/", "b">>}

PathX == <<"/", "x">>

\* params: None, an empty mapping, a mapping with a two-valued key
TwoValued == Some(<< [key |-> <<"q">>, vals |-> << <<"1">>, <<"a", " ", "b">> >>] >>)

SampleParams == {None, Some(<<>>), TwoValued}

SpacesPrefix == HfBaseUrl \o <<"/", "spaces", "/">>

HubSpaceBuildUrl(c, path, params) ==
  LET encoded_space == Quote(c.space_id, {"/"})
      normalized_path == LStrip(path, "/")
      url0 == SpacesPrefix \o encoded_space
      url1 == IF normalized_path # <<>> THEN url0 \o <<"/">> \o normalized_path ELSE url0
  IN IF params # None /\ params[1] # <<>>
     THEN url1 \o <<"?">> \o UrlEncode(params[1]) ELSE url1

\* str.upper() of the method names used
Upper(m) == IF m = "get" THEN "GET" ELSE IF m = "post" THEN "POST" ELSE m

\* the body of the "with" block of request: the decoded JSON, else the raw bytes
HubSpaceRead(raw) ==
  IF raw = <<>> THEN Return(Py(EmptyDict))
  ELSE IF Utf8Ok(raw) /\ IsJson(raw) THEN Return(Py(JsonLoads(raw)))
  ELSE Return(Bytes(raw))

\* request without its check of json_payload against data: json_payload wins
HubSpaceCall_NoBothCheck(c, path, method, params, json_payload, data, r) ==
  LET payload == IF json_payload # None THEN Some(Dumps(json_payload[1])) ELSE data
      headers == IF json_payload # None
                 THEN ("Content-Type" :> <<"application/json">>) @@ HfBuildHeaders(c)
                 ELSE HfBuildHeaders(c)
      url == HubSpaceBuildUrl(c, path, params)
  IN Did(r, Request(url, payload, headers, Some(Upper(method))),
         ExceptHandlers(SpaceService, r, Urlopen(r, HubSpaceRead(r.body))))

\* request(path, method=, params=, json_payload=, data=, timeout=) on client c
HubSpaceCall(c, path, method, params, json_payload, data, r) ==
  IF json_payload # None /\ data # None
  THEN NotSent(Raise("ValueError", <<"Provide either json_payload or data, not both">>))
  ELSE LET payload == IF json_payload # None THEN Some(Dumps(json_payload[1])) ELSE data
           headers == IF json_payload # None
                      THEN ("Content-Type" :> <<"application/json">>) @@ HfBuildHeaders(c)
                      ELSE HfBuildHeaders(c)
           url == HubSpaceBuildUrl(c, path, params)
       IN Did(r, Request(url, payload, headers, Some(Upper(method))),
              ExceptHandlers(SpaceService, r, Urlopen(r, HubSpaceRead(r.body))))

HubSpaceRequest(name, path, method, params, json_payload, data, r) ==
  Do(name, [path |-> path, method |-> method, params |-> params,
            json_payload |-> json_payload, data |-> data],
     HubSpaceCall(client, path, method, params, json_payload, data, r))

SamplePayloads == {None, Some(EmptyDict)}

HubSpace_request(paths, rs) ==
  /\ client.cls = HubSpaceCls
  /\ \E path \in paths, method \in {"post"}, params \in {TwoValued},
        json_payload \in SamplePayloads, data \in {Some(<<"x">>)}, r \in rs :
       HubSpaceRequest("request", path, method, params, json_payload, data, r)
  /\ UNCHANGED <<client, fs>>

HubSpace_get(paths, paramss, rs) ==
  /\ client.cls = HubSpaceCls
  /\ \E path \in paths, params \in paramss, r \in rs :
       HubSpaceRequest("get", path, "GET", params, None, None, r)
  /\ UNCHANGED <<client, fs>>

HubSpace_post(paths, rs) ==
  /\ client.cls = HubSpaceCls
  /\ \E path \in paths, json_payload \in SamplePayloads, data \in {None, Some(<<>>)},
        r \in rs :
       HubSpaceRequest("post", path, "POST", None, json_payload, data, r)
  /\ UNCHANGED <<client, fs>>

HubSpaceOps(paths, paramss, rs) ==
  \/ HubSpace_request(paths, rs)
  \/ HubSpace_get(paths, paramss, rs)
  \/ HubSpace_post(paths, rs)

(***************************************************************************)
(* spaces_client.HuggingFaceSpaceClient: a Space reached directly,         *)
(* https://<slug>.hf.space/<path>.                                         *)
(***************************************************************************)
DirectSpaceCls == "spaces_client.HuggingFaceSpaceClient"

DirectSpaceClients(ids) ==
  {[cls |-> DirectSpaceCls, token |-> t, account_id |-> None, space_id |-> s] :
     t \in Tokens, s \in ids}

\* space_id.replace("/", "-")
Slug(space_id) == [i \in 1..Len(space_id) |-> IF space_id[i] = "/" THEN "-" ELSE space_id[i]]

DirectSpaceBuildUrl(c, path) ==
  <<"https:", "/", "/">> \o Slug(c.space_id) \o <<".", "hf.space">> \o <<"/">> \o LStrip(path, "/")

DirectSpaceHeaders(c, content_type) ==
  ("Accept" :> <<"application/json">>)
    @@ (IF TruthyOpt(content_type) THEN "Content-Type" :> <<content_type[1]>> ELSE NoHeaders)
    @@ (IF TruthyOpt(c.token) THEN "Authorization" :> <<"Bearer ", StrOpt(c.token)>>
        ELSE NoHeaders)

\* what follows the try block of _request, with raw the body read
DirectSpaceDecode(raw, expect_json) ==
  IF ~expect_json THEN Return(Bytes(raw))
  ELSE IF raw = <<>> THEN Return(Py(PyNone))
  ELSE IF ~Utf8Ok(raw) THEN Raise("UnicodeDecodeError", <<>>)
  ELSE IF ~IsJson(raw) THEN APIError(SpaceService, <<"Invalid JSON response">>, None)
  ELSE Return(Py(JsonLoads(raw)))

\* _request(url, method=, data=, content_type=, expect_json=True)
DirectSpaceRequest(c, url, method, data, content_type, expect_json, r) ==
  LET tried == ExceptHandlers(SpaceService, r, Urlopen(r, Return(Bytes(r.body))))
  IN [req |-> Request(url, data, DirectSpaceHeaders(c, content_type), Some(method)),
      out |-> IF tried.kind = "raise" THEN tried
              ELSE DirectSpaceDecode(tried.value.v, expect_json)]

DirectSpace_get(paths, paramss, rs) ==
  /\ client.cls = DirectSpaceCls
  /\ \E path \in paths, params \in paramss, r \in rs :
       LET url0 == DirectSpaceBuildUrl(client, path)
           url == IF params # None /\ params[1] # <<>>
                  THEN url0 \o <<"?">> \o UrlEncode(params[1]) ELSE url0
           x == DirectSpaceRequest(client, url, "GET", None, None, TRUE, r)
       IN Called("get", [path |-> path, params |-> params], r, x.req, x.out)
  /\ UNCHANGED <<client, fs>>

DirectSpace_post(paths, rs) ==
  /\ client.cls = DirectSpaceCls
  /\ \E path \in paths, payload \in {EmptyDict}, r \in rs :
       LET url == DirectSpaceBuildUrl(client, path)
           x == DirectSpaceRequest(client, url, "POST", Some(Dumps(payload)),
                                   Some("application/json"), TRUE, r)
       IN Called("post", [path |-> path, payload |-> payload], r, x.req, x.out)
  /\ UNCHANGED <<client, fs>>

DirectSpaceOps(paths, paramss, rs) ==
  \/ DirectSpace_get(paths, paramss, rs)
  \/ DirectSpace_post(paths, rs)

(***************************************************************************)
(* The command line (cli.py).  One run of main is one step: it parses the  *)
(* arguments, builds a client, calls one operation and prints the result,  *)
(* or ends with an exception.  The arguments, the environment variables    *)
(* and the payload files are the inputs of the run.                        *)
(***************************************************************************)
CliCls == "aion.cli"

\* the process before main has run
CliProcess == [cls |-> CliCls, token |-> None, account_id |-> None, space_id |-> <<>>]

SystemExit(message) == Raise("SystemExit", message)

\* bool(x) of an Optional[str] held as text (a sequence of characters)
TruthyText(o) == o # None /\ o[1] # <<>>

\* the first position of c in s, 0 when there is none (str.find + 1)
Find(s, c) ==
  IF \E i \in 1..Len(s) : s[i] = c
  THEN CHOOSE i \in 1..Len(s) : s[i] = c /\ \A j \in 1..(i - 1) : s[j] # c
  ELSE 0

\* "params[key] = [value]" for setdefault/append: a repeated key keeps its last value
SetDefaultAppend_Overwrite(params, key, value) ==
  IF \E i \in 1..Len(params) : params[i].key = key
  THEN [i \in 1..Len(params) |->
          IF params[i].key = key THEN [key |-> key, vals |-> <<value>>] ELSE params[i]]
  ELSE Append(params, [key |-> key, vals |-> <<value>>])

\* params.setdefault(key, []).append(value) on a dict kept as its items in order
SetDefaultAppend(params, key, value) ==
  IF \E i \in 1..Len(params) : params[i].key = key
  THEN [i \in 1..Len(params) |->
          IF params[i].key = key
          THEN [key |-> key, vals |-> Append(params[i].vals, value)] ELSE params[i]]
  ELSE Append(params, [key |-> key, vals |-> <<value>>])

RECURSIVE ParseLoop(_, _)
\* the for loop of _parse_key_value_args, with params built so far
ParseLoop(params, pairs) ==
  IF pairs = <<>> THEN Return(params)
  ELSE LET item == Head(pairs)
           eq == Find(item, "=")
       IN IF eq = 0
          THEN SystemExit(<<"Parameters must be in key=value form; received '">>
                            \o item \o <<"'">>)
          ELSE ParseLoop(SetDefaultAppend(params, SubSeq(item, 1, eq - 1),
                                          SubSeq(item, eq + 1, Len(item))),
                         Tail(pairs))

\* _parse_key_value_args(pairs): "for item in pairs or []"
ParseKeyValueArgs(pairs) == ParseLoop(<<>>, IF pairs = None THEN <<>> ELSE pairs[1])

\* a path on disk: missing, a directory, or a file with its bytes
Missing == [k |-> "missing", body |-> <<>>]

Directory == [k |-> "dir", body |-> <<>>]

File(body) == [k |-> "file", body |-> body]

\* open(path, encoding="utf-8") and json.load(handle): the value, or what is raised
LoadJsonFile(f) ==
  CASE f.k = "missing" -> Raise("FileNotFoundError", <<>>)
    [] f.k = "dir" -> Raise("IsADirectoryError", <<>>)
    [] OTHER -> JsonLoad(f.body)

\* _load_template(name), with the template file as it is on disk
LoadTemplate(name, template) ==
  IF template.k = "missing"
  THEN SystemExit(<<"Template '", name, "' was not found under templates">>)
  ELSE LET o == LoadJsonFile(template)
       IN IF o.kind = "raise" /\ o.exc = "JSONDecodeError"
          THEN SystemExit(<<"Template '", name, "' contains invalid JSON">>)
          ELSE o

\* _resolve_payload: the payload and the "provided" flag, or what is raised;
\* file and template are what the two paths hold on disk
ResolvePayload(inline_payload, payload_file, template_name, file, template) ==
  IF TruthyText(inline_payload) /\ TruthyOpt(payload_file)
  THEN SystemExit(<<"Provide either --payload or --payload-file, not both">>)
  ELSE IF TruthyOpt(payload_file)
  THEN LET o == LoadJsonFile(file)
       IN IF o.kind = "return" THEN Return([payload |-> o.value.v, provided |-> TRUE])
          ELSE IF o.exc = "FileNotFoundError"
            THEN SystemExit(<<"Payload file '", payload_file[1], "' could not be found">>)
          ELSE IF o.exc = "JSONDecodeError"
            THEN SystemExit(<<"Payload file '", payload_file[1], "' is not valid JSON">>)
          ELSE o
  ELSE IF inline_payload # None
  THEN IF IsJson(inline_payload[1])
       THEN Return([payload |-> JsonLoads(inline_payload[1]), provided |-> TRUE])
       ELSE SystemExit(<<"Inline payload is not valid JSON">>)
  ELSE IF TruthyOpt(template_name)
  THEN LET o == LoadTemplate(template_name[1], template)
       IN IF o.kind = "return" THEN Return([payload |-> o.value.v, provided |-> TRUE]) ELSE o
  ELSE Return([payload |-> EmptyDict, provided |-> FALSE])

\* "args.token or os.getenv(...)"
TokenOrEnv(flag, env) == IF TruthyOpt(flag) THEN flag ELSE env

\* the --token flag and the environment variable of a run
TokenInputs ==
  {[flag |-> None, env |-> None], [flag |-> Some(""), env |-> Some("envtok")],
   [flag |-> Some("tok"), env |-> None]}

\* main's handler: "except APIError as exc: raise SystemExit(str(exc))"
MainExcept(o) ==
  IF o.kind = "raise" /\ IsInstance(o.exc, "APIError") THEN SystemExit(o.text) ELSE o

\* _print_space_response: what is printed, or SystemExit for bytes that are no UTF-8
PrintSpaceResponse(o) ==
  IF o.kind = "return" /\ o.value.t = "bytes"
  THEN IF Utf8Ok(o.value.v) THEN Return(Str(o.value.v))
       ELSE SystemExit(<<"The Space returned binary data; redirect to a file instead">>)
  ELSE o

\* the three space subcommands of build_parser, with their defaults
SpaceCommands ==
  {[space_action |-> "call", space_id |-> SlashId, path |-> <<"api", "/", "predict">>,
    method |-> "POST", payload_template |-> None],
   [space_action |-> "neuro-backend",
    space_id |-> <<"darkfrostx", "/", "neuro-mechanism-backend">>,
    path |-> <<"health">>, method |-> "GET", payload_template |-> None],
   [space_action |-> "ssra-auditor", space_id |-> <<"darkfrostx", "/", "ssra-auditor">>,
    path |-> <<"audit">>, method |-> "POST",
    payload_template |-> Some("ssra_auditor_payload.json")]}

\* --query entries: none, repeated keys, keys interleaved, "=" and "&" inside a
\* value, an empty key, an empty value, and entries without "="
Queries ==
  {None,
   Some(<< <<"q", "=", "1">> >>),
   Some(<< <<"q", "=", "1">>, <<"q", "=", "a", " ", "b">> >>),
   Some(<< <<"b", "=", "1">>, <<"a", "=", "2">>, <<"b", "=", "3">> >>),
   Some(<< <<"k", "=", "x", "=", "1">>, <<"k", "=", "a", "&", "b">> >>),
   Some(<< <<"=", "v">>, <<"k", "=">> >>),
   Some(<< <<"x">> >>),
   Some(<< <<"q", "=", "1">>, <<"x">> >>)}

\* --payload: absent, empty, {}, null, [1], and text that is no JSON
InlinePayloads ==
  {None, Some(<<>>), Some(Dumps(EmptyDict)), Some(<<"null">>), Some(Dumps(JArr(<<"1">>))),
   Some(<<"{">>)}

PayloadJson == JObj("true", Absent, Absent)

\* --payload-file with what the path holds
PayloadFiles ==
  {[payload_file |-> None, file |-> Missing],
   [payload_file |-> Some(""), file |-> Missing]}
    \cup {[payload_file |-> Some("p.json"), file |-> f] :
            f \in {Missing, Directory, File(Dumps(PayloadJson)), File(<<"null">>),
                    File(<<"{">>), File(<<BAD>>)}}

\* the template file of the package: missing, or holding a JSON list
Templates == {Missing, File(Dumps(JArr(<<"1">>)))}

\* what the Space answers in the runs of the command line
CliResponses ==
  {Ok(Dumps(PayloadJson)), Ok(<<>>), Ok(<<BAD>>), Ok(<<"b", "i", "n">>),
   HttpError(404, "Not Found", <<"n", "o">>)} \cup ReadTimeouts \cup UrlErrors

\* _handle_huggingface_space(args)
HandleSpace(cmd, token, query, payload, payload_file, file, template, allow_empty, r) ==
  LET c == [cls |-> HubSpaceCls, token |-> token, account_id |-> None,
            space_id |-> cmd.space_id]
      params == ParseKeyValueArgs(query)
      resolved == ResolvePayload(payload, payload_file, cmd.payload_template, file, template)
  IN IF params.kind = "raise" THEN NotSent(params)
     ELSE IF resolved.kind = "raise" THEN NotSent(resolved)
     ELSE LET send_payload == resolved.value.provided \/ allow_empty
              json_payload == IF send_payload /\ resolved.value.payload # PyNone
                              THEN Some(resolved.value.payload) ELSE None
              e == HubSpaceCall(c, cmd.path, cmd.method,
                                IF params.value # <<>> THEN Some(params.value) ELSE None,
                                json_payload, None, r)
          IN [e EXCEPT !.out = PrintSpaceResponse(e.out)]

\* main(["huggingface", "space", ...])
cli_space ==
  /\ client = CliProcess
  /\ op.name = ""
  /\ \E cmd \in SpaceCommands, t \in TokenInputs, query \in Queries,
        payload \in InlinePayloads, pf \in PayloadFiles, template \in Templates,
        allow_empty \in BOOLEAN, r \in CliResponses :
       LET e == HandleSpace(cmd, TokenOrEnv(t.flag, t.env), query, payload, pf.payload_file,
                            pf.file, template, allow_empty, r)
       IN Do("cli space",
             [space_action |-> cmd.space_action, space_id |-> cmd.space_id,
              path |-> cmd.path, method |-> cmd.method,
              payload_template |-> cmd.payload_template, token |-> t, query |-> query,
              payload |-> payload, payload_file |-> pf.payload_file, file |-> pf.file,
              template |-> template, allow_empty_payload |-> allow_empty],
             [e EXCEPT !.out = MainExcept(e.out)])
  /\ UNCHANGED <<client, fs>>

\* the run has not started: main runs once per process
NotRun == client = CliProcess /\ op.name = ""

HfCliClient(t) ==
  [cls |-> "HuggingFaceClient", token |-> TokenOrEnv(t.flag, t.env), account_id |-> None,
   space_id |-> <<>>]

\* main(["huggingface", "list-models", ...])
cli_list_models ==
  /\ NotRun
  /\ \E t \in TokenInputs, author \in OptNames, r \in Responses :
       LET e == ListModelsCall(HfCliClient(t), author, "10", r)
       IN Do("cli list-models", [token |-> t, author |-> author],
             [e EXCEPT !.out = MainExcept(e.out)])
  /\ UNCHANGED <<client, fs>>

\* main(["huggingface", "model-card", model_id])
cli_model_card ==
  /\ NotRun
  /\ \E t \in TokenInputs, model_id \in {SlashId}, r \in Responses :
       LET e == GetModelCardCall(HfCliClient(t), model_id, r)
       IN Do("cli model-card", [token |-> t, model_id |-> model_id],
             [e EXCEPT !.out = MainExcept(e.out)])
  /\ UNCHANGED <<client, fs>>

\* bytes.decode("utf-8", errors="replace")
DecodeReplace(b) == [i \in 1..Len(b) |-> IF b[i] = BAD THEN "\\ufffd" ELSE b[i]]

\* the "download" branch of _handle_huggingface: what it prints after the call
PrintDownload(o, destination) ==
  IF o.kind # "return" THEN o
  ELSE IF destination = None THEN Return(Str(DecodeReplace(o.value.v)))
  ELSE Return(Str(<<"Downloaded to ", o.value.v>>))

\* main(["huggingface", "download", repo_id, filename, "--output", output])
cli_download ==
  /\ NotRun
  /\ \E t \in TokenInputs, repo_id \in {SlashId}, filename \in {<<"/", "d", "/", "a">>},
        output \in {None, Some(""), Some(Destination)}, r \in FileResponses :
       LET destination == IF TruthyOpt(output) THEN output ELSE None
           e == DownloadFileCall(HfCliClient(t), fs, repo_id, filename, <<"main">>,
                                 destination, r)
       IN /\ Do("cli download",
                [token |-> t, repo_id |-> repo_id, filename |-> filename, output |-> output],
                [e.did EXCEPT !.out = MainExcept(PrintDownload(e.did.out, destination))])
          /\ fs' = e.fs
  /\ UNCHANGED client

\* CloudflareClient(token=token, account_id=args.account_id)
CfCliClient(t, account_id) ==
  [cls |-> "CloudflareClient", token |-> TokenOrEnv(t.flag, t.env), account_id |-> account_id,
   space_id |-> <<>>]

\* _handle_cloudflare(args): the token check, then e, what the action did on the client
HandleCloudflare(t, e) ==
  IF ~TruthyOpt(TokenOrEnv(t.flag, t.env))
  THEN NotSent(SystemExit(<<"A Cloudflare API token is required">>))
  ELSE e

AccountIds == {None, Some(""), Some("acct")}

\* main(["cloudflare", "list-zones", "--name", name])
cli_list_zones ==
  /\ NotRun
  /\ \E t \in TokenInputs, account_id \in AccountIds, name \in OptNames, r \in Responses :
       LET e == HandleCloudflare(t, ListZonesCall(CfCliClient(t, account_id), name, r))
       IN Do("cli list-zones", [token |-> t, account_id |-> account_id, name |-> name],
             [e EXCEPT !.out = MainExcept(e.out)])
  /\ UNCHANGED <<client, fs>>

\* main(["cloudflare", "create-kv-namespace", title])
cli_create_kv_namespace ==
  /\ NotRun
  /\ \E t \in TokenInputs, account_id \in AccountIds, title \in {SlashId}, r \in Responses :
       LET e == HandleCloudflare(t, CreateKvNamespaceCall(CfCliClient(t, account_id), title, r))
       IN Do("cli create-kv-namespace",
             [token |-> t, account_id |-> account_id, title |-> title],
             [e EXCEPT !.out = MainExcept(e.out)])
  /\ UNCHANGED <<client, fs>>

\* main(["cloudflare", "write-kv", namespace_id, key, value])
cli_write_kv ==
  /\ NotRun
  /\ \E t \in TokenInputs, account_id \in AccountIds, namespace_id \in {SlashId},
        key \in {SlashId}, value \in {<<"v">>}, r \in Responses :
       LET e == HandleCloudflare(t, WriteKvValueCall(CfCliClient(t, account_id), namespace_id,
                                                     key, value, r))
       IN Do("cli write-kv",
             [token |-> t, account_id |-> account_id, namespace_id |-> namespace_id,
              key |-> key, value |-> value],
             [e EXCEPT !.out = MainExcept(e.out)])
  /\ UNCHANGED <<client, fs>>

\* main(argv): the subcommand argv names
cli_main ==
  \/ cli_list_models
  \/ cli_model_card
  \/ cli_download
  \/ cli_space
  \/ cli_list_zones
  \/ cli_create_kv_namespace
  \/ cli_write_kv

(***************************************************************************)
(* The clients in use.  A client is constructed once; every step is one    *)
(* call of one of its operations.                                          *)
(***************************************************************************)
InitWith(clients) ==
  /\ client \in clients
  /\ fs \in (IF client.cls = "HuggingFaceClient" THEN FsInits ELSE {NoFiles})
  /\ op = [name |-> "", args |-> None]
  /\ resp = NoResp
  /\ req = NoReq
  /\ sent = 0
  /\ out = NoOutcome

\* every client class, each with and without a token; one call after another,
\* each answered by any outcome of the HTTP call
Init ==
  InitWith(HfClients \cup HubSpaceClients({SlashId}) \cup DirectSpaceClients({SlashId})
             \cup CfClients)

Next ==
  \/ HuggingFaceOps(OptNames, {SlashId}, Responses, FileResponses)
  \/ HubSpaceOps({PathX}, SampleParams, Responses)
  \/ DirectSpaceOps({PathX}, SampleParams, Responses)
  \/ CloudflareOps(OptNames, {SlashId}, Responses)

Spec == Init /\ [][Next]_vars

(***************************************************************************)
(* URL building on every identifier of up to MaxIdLen characters: the      *)
(* metadata call of HuggingFaceClient and the GET of the Hub Space client, *)
(* each answered 200 with an empty JSON list.                              *)
(***************************************************************************)
\* the separator, the escape character, and two ordinary characters that also
\* spell the escape of the separator
UrlChars == {"/", "%", "2", "F"}

AllIds == UNION {[1..n -> UrlChars] : n \in 0..MaxIdLen}

OkEmptyList == Ok(Dumps(JArr(<<>>)))

UrlInit ==
  /\ InitWith({c \in HfClients \cup HubSpaceClients(AllIds) : c.token = None})
  /\ fs = NoFiles

UrlNext ==
  \/ get_model_card(AllIds, {OkEmptyList})
  \/ HubSpace_get(SamplePaths, SampleParams, {OkEmptyList})

SpecUrl == UrlInit /\ [][UrlNext]_vars

(***************************************************************************)
(* Path building with identifiers that hold a reserved character: the      *)
(* Cloudflare operations that put an identifier into the path, and         *)
(* download_file.                                                          *)
(***************************************************************************)
PathIds ==
  {<<"a">>, <<"/">>, <<"a", "/", "b">>, <<"a", "?", "b">>, <<"a", "#", "b">>, <<"#", "?">>}

NotFound == HttpError(404, "Not Found", <<>>)

PathInit ==
  /\ InitWith({c \in CfClients : c.token = Some("tok") /\ c.account_id = Some("acct")}
                \cup {c \in HfClients : c.token = None})
  /\ fs = NoFiles

PathNext ==
  \/ write_kv_value(PathIds, {OkEmptyList, NotFound})
  \/ get_worker_service(PathIds, {OkEmptyList, NotFound})
  \/ list_worker_service_environments(PathIds, {OkEmptyList, NotFound})
  \/ get_worker_service_script(PathIds, {OkEmptyList, NotFound})
  \/ download_file(PathIds, {OkEmptyList, NotFound})

SpecPath == PathInit /\ [][PathNext]_vars

(***************************************************************************)
(* One run of the command line, from the start of the process.             *)
(***************************************************************************)
CliInit ==
  /\ client = CliProcess
  /\ fs \in FsInits
  /\ op = [name |-> "", args |-> None]
  /\ resp = NoResp
  /\ req = NoReq
  /\ sent = 0
  /\ out = NoOutcome

CliNext == cli_main

SpecCli == CliInit /\ [][CliNext]_vars

(***************************************************************************)
(* Construction of APIError on its own: every service label, a few         *)
(* messages, and every kind of status.                                     *)
(***************************************************************************)
ErrServices == {"Hugging Face", "Hugging Face Space", "Cloudflare"}

ErrMessages ==
  {<<>>, <<"n", "o">>, <<"Not Found">>, <<"Unknown error">>, <<"Invalid JSON response">>,
   <<"[{'code': 7}]">>, <<"refused">>, <<"timed out">>, <<" (status: ", "7", ")">>}

ErrStatuses == {None, Some(0), Some(200), Some(404), Some(500)}

ErrInit == InitWith(HfClients) /\ fs = NoFiles

\* raise APIError(service, message, status=status)
raise_APIError ==
  /\ \E service \in ErrServices, message \in ErrMessages, status \in ErrStatuses :
       Do("APIError", [service |-> service, message |-> message, status |-> status],
          NotSent(APIError(service, message, status)))
  /\ UNCHANGED <<client, fs>>

ErrNext == raise_APIError

SpecErr == ErrInit /\ [][ErrNext]_vars

(***************************************************************************)
(* Properties.                                                             *)
(***************************************************************************)
IsCf == client.cls = "CloudflareClient"

AccountScopedOps ==
  {"create_kv_namespace", "write_kv_value", "list_worker_services", "get_worker_service",
   "list_worker_service_environments", "get_worker_service_script"}

\* the operations that go through _request and _parse_response
EnvelopeOps == (AccountScopedOps \ {"get_worker_service_script"}) \cup {"list_zones"}

\* the service label each client class puts on its APIError
ServiceLabel(cls) ==
  CASE cls = "HuggingFaceClient" -> "Hugging Face"
    [] cls = "CloudflareClient" -> "Cloudflare"
    [] OTHER -> "Hugging Face Space"

\* C1: with the account id missing (None or ""), every account-scoped operation of
\* CloudflareClient raises ValueError (not APIError) and calls urlopen zero times.
C1_AccountIdRequired ==
  (IsCf /\ ~TruthyOpt(client.account_id) /\ op.name \in AccountScopedOps)
    => /\ out.kind = "raise"
       /\ out.exc = "ValueError"
       /\ sent = 0
       /\ req = NoReq

C1_Witness ==
  /\ IsCf
  /\ client.account_id = Some("")
  /\ op.name = "get_worker_service_script"
  /\ out.exc = "ValueError"
  /\ sent = 0

\* a 2xx answer to an envelope operation whose body is a JSON object
EnvelopeAnswered ==
  /\ IsCf
  /\ op.name \in EnvelopeOps
  /\ sent = 1
  /\ resp.k = "ok"
  /\ Utf8Ok(resp.body)
  /\ IsJson(resp.body)
  /\ JsonLoads(resp.body).t = "obj"

\* C2 as stated: with success false or missing the call raises APIError("Cloudflare")
\* whose message is str(errors), or "Unknown error" when errors is absent; the call
\* returns only when success is true.
C2_AsStated ==
  EnvelopeAnswered =>
    LET data == JsonLoads(resp.body) IN
      /\ data.success \in {Absent, "false"}
           => out = APIError("Cloudflare",
                             IF data.errors = Absent THEN <<"Unknown error">>
                             ELSE PyStr(data.errors),
                             None)
      /\ out.kind = "return" => data.success = "true"

\* C2 amended: with success missing or falsy the call raises APIError("Cloudflare"),
\* without a status, whose message is str(errors) when errors is present and truthy and
\* "Unknown error" when errors is absent or empty; the call returns only when success
\* is present and truthy.
C2_EnvelopeChecked ==
  EnvelopeAnswered =>
    LET data == JsonLoads(resp.body) IN
      /\ (data.success = Absent \/ ~Truthy(data.success))
           => out = APIError("Cloudflare",
                             IF data.errors = Absent \/ ~Truthy(data.errors)
                             THEN <<"Unknown error">> ELSE PyStr(data.errors),
                             None)
      /\ out.kind = "return" => (data.success # Absent /\ Truthy(data.success))

C2_Witness ==
  /\ EnvelopeAnswered
  /\ JsonLoads(resp.body).success = "false"
  /\ JsonLoads(resp.body).errors = "[{\"code\":7}]"
  /\ out.exc = "APIError"
  /\ out.message = <<"[{'code': 7}]">>

C4_OnlyAPIErrorEscapes ==
  /\ (sent = 1 /\ out.kind = "raise") => out.exc = "APIError"
  /\ (sent = 1 /\ resp.k \in {"URLError", "TimeoutError"})
       => (out.kind = "raise" /\ out.exc = "APIError" /\ out.status = None)
  /\ (sent = 0 /\ out.kind = "raise") => out.exc = "ValueError"

\* the operations that require JSON
JsonRequiredOps == {"list_models", "get_model_card"} \cup EnvelopeOps

\* C5: a 2xx answer to an operation that requires JSON whose body is not valid JSON
\* raises APIError with a decode message ("Invalid JSON response"); it returns nothing
\* and raises no raw decoding exception.
C5_DecodeErrorIsAPIError ==
  (client.cls \in {"HuggingFaceClient", "CloudflareClient"} /\ op.name \in JsonRequiredOps
     /\ sent = 1 /\ resp.k = "ok" /\ Utf8Ok(resp.body) /\ ~IsJson(resp.body))
    => /\ out.kind = "raise"
       /\ out.exc = "APIError"
       /\ out.status = None

IsSpace == client.cls \in {HubSpaceCls, DirectSpaceCls}

\* C6: a Space call, through either client, answered 2xx with a non-empty body returns
\* the decoded value when the body parses as JSON and the raw bytes unchanged when it
\* does not; it does not fail.
C6_SpaceFallsBackToBytes ==
  (IsSpace /\ sent = 1 /\ resp.k = "ok" /\ resp.body # <<>>)
    => out = (IF Utf8Ok(resp.body) /\ IsJson(resp.body)
              THEN Return(Py(JsonLoads(resp.body)))
              ELSE Return(Bytes(resp.body)))

\* C7: a Space call, through either client, answered 2xx with an empty body returns an
\* empty mapping.
C7_SpaceEmptyBodyIsEmptyMapping ==
  (IsSpace /\ sent = 1 /\ resp.k = "ok" /\ resp.body = <<>>)
    => out = Return(Py(EmptyDict))

\* C8 as stated: every request of every client carries Authorization: Bearer <token>
\* if and only if the client's token is non-empty.
C8_AsStated ==
  sent = 1
    => /\ HasHeader(req, "Authorization") <=> TruthyOpt(client.token)
       /\ HasHeader(req, "Authorization")
            => req.headers["Authorization"] = <<"Bearer ", client.token[1]>>

\* C8 amended: every request of HuggingFaceClient and of both Space clients carries
\* Authorization: Bearer <token> if and only if the token is non-empty; every request
\* of CloudflareClient carries the header, with the configured token, whatever the
\* token is (also the empty one).
C8_BearerToken ==
  sent = 1
    => IF IsCf
       THEN /\ HasHeader(req, "Authorization")
            /\ req.headers["Authorization"] = <<"Bearer ", StrOpt(client.token)>>
       ELSE /\ HasHeader(req, "Authorization") <=> TruthyOpt(client.token)
            /\ HasHeader(req, "Authorization")
                 => req.headers["Authorization"] = <<"Bearer ", client.token[1]>>

C8_Witness ==
  /\ IsCf
  /\ client.token = Some("")
  /\ sent = 1
  /\ req.headers["Authorization"] = <<"Bearer ", "">>

\* C9: a request has Content-Type: application/json only when it carries a body; a
\* request without a body (every GET) has no Content-Type set by the client.
C9_ContentTypeOnlyWithBody ==
  sent = 1
    => /\ (HasHeader(req, "Content-Type")
             /\ req.headers["Content-Type"] = <<"application/json">>) => req.data # None
       /\ req.data = None => ~HasHeader(req, "Content-Type")

\* the part of a URL after a prefix
After(url, prefix) == SubSeq(url, Len(prefix) + 1, Len(url))

StartsWith(url, prefix) == Len(url) >= Len(prefix) /\ SubSeq(url, 1, Len(prefix)) = prefix

\* the character a percent-escape stands for
PctDecode(h, l) ==
  CASE h = "2" /\ l = "F" -> "/"
    [] h = "2" /\ l = "5" -> "%"
    [] h = "3" /\ l = "F" -> "?"
    [] h = "2" /\ l = "3" -> "#"
    [] h = "3" /\ l = "D" -> "="
    [] h = "2" /\ l = "6" -> "&"
    [] h = "2" /\ l = "0" -> " "
    [] h = "2" /\ l = "B" -> "+"
    [] OTHER -> "?"

RECURSIVE Unquote(_)
\* percent-decoding, as the server does it
Unquote(s) ==
  IF s = <<>> THEN <<>>
  ELSE IF Head(s) = "%" /\ Len(s) >= 3
    THEN <<PctDecode(s[2], s[3])>> \o Unquote(SubSeq(s, 4, Len(s)))
  ELSE <<Head(s)>> \o Unquote(Tail(s))

Slashes(s) == Cardinality({i \in 1..Len(s) : s[i] = "/"})

\* what _build_url puts after the space id: the path and the query string
SpaceUrlTail(path, params) ==
  (IF LStrip(path, "/") # <<>> THEN <<"/">> \o LStrip(path, "/") ELSE <<>>)
    \o (IF params # None /\ params[1] # <<>> THEN <<"?">> \o UrlEncode(params[1]) ELSE <<>>)

\* C10: get_model_card(id) requests <base>/api/models/<segment> where the segment
\* holds no "/" and decodes to id (every "/" of id escaped as %2F); the Hub Space
\* client requests <base>/spaces/<space_id>/<path> where the part for space_id decodes
\* to space_id and keeps each of its "/"; and for each of the two, a different
\* identifier (same path and parameters) gives a different URL.
C10_SlashEscapedOrKept ==
  /\ (client.cls = "HuggingFaceClient" /\ op.name = "get_model_card")
       => LET seg == After(req.url, ModelCardPrefix) IN
            /\ StartsWith(req.url, ModelCardPrefix)
            /\ Slashes(seg) = 0
            /\ Unquote(seg) = op.args.model_id
            /\ \A other \in AllIds :
                 other # op.args.model_id => ModelCardUrl(other) # req.url
  /\ (client.cls = HubSpaceCls /\ op.name = "get")
       => LET rest == After(req.url, SpacesPrefix)
              tail == SpaceUrlTail(op.args.path, op.args.params)
              enc == SubSeq(rest, 1, Len(rest) - Len(tail))
          IN /\ StartsWith(req.url, SpacesPrefix)
             /\ After(rest, enc) = tail
             /\ Unquote(enc) = client.space_id
             /\ Slashes(enc) = Slashes(client.space_id)
             /\ \A other \in AllIds :
                  other # client.space_id
                    => HubSpaceBuildUrl([client EXCEPT !.space_id = other],
                                        op.args.path, op.args.params) # req.url

C10_Witness ==
  /\ op.name = "get_model_card"
  /\ op.args.model_id = <<"2", "/", "F">>
  /\ req.url = ModelCardPrefix \o <<"2", "%", "2", "F", "F">>

\* how often a character occurs in a text
Occurs(s, c) == Cardinality({i \in 1..Len(s) : s[i] = c})

PathOps ==
  {"write_kv_value", "get_worker_service", "list_worker_service_environments",
   "get_worker_service_script", "download_file"}

\* the path an operation addresses, with its identifiers as given (not encoded)
RawUrl ==
  LET a == op.args
      services == CfAccountUrl(client.account_id) \o <<"/", "workers", "/", "services", "/">>
  IN CASE op.name = "write_kv_value" ->
            CfAccountUrl(client.account_id) \o <<"/", "storage", "/", "kv", "/", "namespaces", "/">>
              \o a.namespace_id \o <<"/", "values", "/">> \o a.key
       [] op.name = "get_worker_service" -> services \o a.service
       [] op.name = "list_worker_service_environments" ->
            services \o a.service \o <<"/", "environments">>
       [] op.name = "get_worker_service_script" ->
            services \o a.service \o <<"/", "environments", "/">> \o a.environment
              \o <<"/", "content">>
       [] op.name = "download_file" ->
            HfBaseUrl \o <<"/">> \o a.repo_id \o <<"/", "resolve", "/">> \o a.revision
              \o <<"/">> \o LStrip(a.filename, "/")

\* the "/" inside the identifiers that are opaque tokens (all but the filename)
OpaqueSlashes ==
  LET a == op.args
  IN CASE op.name = "write_kv_value" -> Slashes(a.namespace_id) + Slashes(a.key)
       [] op.name = "get_worker_service_script" -> Slashes(a.service) + Slashes(a.environment)
       [] op.name = "download_file" -> Slashes(a.repo_id) + Slashes(a.revision)
       [] OTHER -> Slashes(a.service)

\* C11: every identifier placed into a request path is percent-encoded as its own
\* segment: the URL decodes to the path with the identifiers as given, holds no "?"
\* and no "#", and holds no "/" beyond those of the path itself and of a filename.
C11_IdentifiersEncoded ==
  (sent = 1 /\ op.name \in PathOps)
    => /\ Unquote(req.url) = RawUrl
       /\ Occurs(req.url, "?") = 0
       /\ Occurs(req.url, "#") = 0
       /\ Slashes(req.url) = Slashes(RawUrl) - OpaqueSlashes

\* C14: constructing APIError(service, message, status) gives the text
\* "<service> API error: <message>", followed by " (status: <code>)" exactly when
\* status is not None (also for status 0); the fields stay readable on the error.
C14_ErrorText ==
  (op.name = "APIError" /\ out.exc = "APIError")
    => LET head == <<op.args.service, " API error: ">> \o op.args.message
           tail == After(out.text, head)
       IN /\ StartsWith(out.text, head)
          /\ op.args.status = None => tail = <<>>
          /\ op.args.status # None
               => tail = <<" (status: ", ToString(op.args.status[1]), ")">>
          /\ out.service = op.args.service
          /\ out.message = op.args.message
          /\ out.status = op.args.status

C14_Witness ==
  /\ op.name = "APIError"
  /\ op.args.status = Some(0)
  /\ op.args.message = <<"n", "o">>
  /\ out.text = <<"Cloudflare", " API error: ", "n", "o", " (status: ", "0", ")">>

RECURSIVE Split(_, _)
\* the parts of s between the occurrences of c
Split(s, c) ==
  LET i == Find(s, c)
  IN IF i = 0 THEN <<s>>
     ELSE <<SubSeq(s, 1, i - 1)>> \o Split(SubSeq(s, i + 1, Len(s)), c)

\* decoding of a query-string key or value, as the server does it: "+" is a space
UnquotePlus(s) == Unquote([i \in 1..Len(s) |-> IF s[i] = "+" THEN " " ELSE s[i]])

\* an entry or component "key=value", split at its first "="
KeyValue(item, decode(_)) ==
  LET eq == Find(item, "=")
  IN [key |-> decode(SubSeq(item, 1, eq - 1)), value |-> decode(SubSeq(item, eq + 1, Len(item)))]

\* the --query entries of the run, as key/value pairs in the order given
QueryEntries ==
  IF op.args.query = None THEN <<>>
  ELSE [i \in 1..Len(op.args.query[1]) |-> KeyValue(op.args.query[1][i], LAMBDA x : x)]

\* the components of the query string of the request, decoded
QueryComponents ==
  LET q == Find(req.url, "?")
      comps == IF q = 0 THEN <<>> ELSE Split(SubSeq(req.url, q + 1, Len(req.url)), "&")
  IN [i \in 1..Len(comps) |-> KeyValue(comps[i], UnquotePlus)]

\* C12: the URL of a Space request made from the command line carries one key=value
\* component per --query entry (split at its first "="), the values of a key in the
\* order given, and no "?" when there is no entry.
C12_RepeatedKeys ==
  (op.name = "cli space" /\ sent = 1)
    => /\ (QueryEntries = <<>>) <=> (Occurs(req.url, "?") = 0)
       /\ Occurs(req.url, "?") <= 1
       /\ Occurs(req.url, "=") = Len(QueryEntries)
       /\ Len(QueryComponents) = Len(QueryEntries)
       /\ \A i \in 1..Len(QueryEntries) :
            LET k == QueryEntries[i].key
            IN SelectSeq(QueryComponents, LAMBDA x : x.key = k)
                 = SelectSeq(QueryEntries, LAMBDA x : x.key = k)

C12_Witness ==
  /\ op.name = "cli space"
  /\ sent = 1
  /\ op.args.query = Some(<< <<"b", "=", "1">>, <<"a", "=", "2">>, <<"b", "=", "3">> >>)
  /\ After(req.url, SubSeq(req.url, 1, Find(req.url, "?")))
       = <<"b", "=", "1", "&", "b", "=", "3", "&", "a", "=", "2">>

(***************************************************************************)
(* download_file and the file system.                                      *)
(***************************************************************************)
\* C13: download_file without a destination returns the response bytes unchanged, whatever
\* they are; with a destination it writes only after the request succeeded: the destination
\* then holds exactly the response bytes, its parent directory exists and the path is
\* returned; a failed request raises APIError and leaves every file and directory as it was.
C13_DownloadFrame ==
  [][op'.name = "download_file"
       => LET destination == op'.args.destination
          IN /\ sent' = 1
             /\ (resp'.k = "ok" /\ destination = None)
                  => (out' = Return(Bytes(resp'.body)) /\ fs' = fs)
             /\ (resp'.k = "ok" /\ destination # None)
                  => /\ out' = Return([t |-> "path", v |-> destination[1]])
                     /\ fs' = [parent |-> TRUE, file |-> Some(resp'.body)]
             /\ resp'.k # "ok"
                  => (out'.kind = "raise" /\ out'.exc = "APIError" /\ fs' = fs)]_vars

(***************************************************************************)
(* write_kv_value.                                                         *)
(***************************************************************************)
\* write_kv_value on a client with an account id
KvWritten == IsCf /\ op.name = "write_kv_value" /\ TruthyOpt(client.account_id)

\* the one request of write_kv_value: a PUT of the value as text/plain
KvPut ==
  /\ sent = 1
  /\ req.method = "PUT"
  /\ req.data = Some(op.args.value)
  /\ HasHeader(req, "Content-Type")
  /\ req.headers["Content-Type"] = <<"text/plain">>

\* C16 as stated: write_kv_value with an account id sends exactly one PUT whose body is
\* the value and whose Content-Type is text/plain, checks the envelope of the answer, and
\* when it returns, returns the whole envelope, whose success field is true.
C16_AsStated ==
  KvWritten
    => /\ KvPut
       /\ EnvelopeAnswered
            => (out.kind = "return" <=> JsonLoads(resp.body).success = "true")
       /\ out.kind = "return"
            => /\ EnvelopeAnswered
               /\ out.value = Py(JsonLoads(resp.body))
               /\ out.value.v.success = "true"

\* C16 amended: write_kv_value with an account id sends exactly one PUT whose body is
\* the value and whose Content-Type is text/plain, checks the envelope of the answer, and
\* returns exactly when the answer is an envelope whose success field is present and
\* truthy; it then returns the whole envelope.
C16_KvPutEnvelope ==
  KvWritten
    => /\ KvPut
       /\ EnvelopeAnswered
            => (out.kind = "return"
                  <=> (JsonLoads(resp.body).success # Absent
                         /\ Truthy(JsonLoads(resp.body).success)))
       /\ out.kind = "return"
            => /\ EnvelopeAnswered
               /\ out.value = Py(JsonLoads(resp.body))
               /\ Truthy(out.value.v.success)

C16_Witness ==
  /\ KvWritten
  /\ KvPut
  /\ resp.body = Dumps(JObj("true", Absent, "[1]"))
  /\ out = Return(Py(JObj("true", Absent, "[1]")))

(***************************************************************************)
(* One round trip per operation.                                           *)
(***************************************************************************)
\* the preconditions an operation checks before it builds its request
Precondition ==
  CASE IsCf /\ op.name \in AccountScopedOps -> TruthyOpt(client.account_id)
    [] client.cls = HubSpaceCls -> ~(op.args.json_payload # None /\ op.args.data # None)
    [] OTHER -> TRUE

C18_EitherJsonOrData ==
  (client.cls = HubSpaceCls /\ op.name \in {"request", "post"})
    => LET json_payload == op.args.json_payload
           data == op.args.data
       IN /\ (json_payload # None /\ data # None)
               => (out.kind = "raise" /\ out.exc = "ValueError" /\ sent = 0 /\ req = NoReq)
          /\ (json_payload # None /\ data = None)
               => (sent = 1 /\ req.data = Some(Dumps(json_payload[1])))
          /\ (json_payload = None /\ data # None) => (sent = 1 /\ req.data = data)
          /\ (json_payload = None /\ data = None) => (sent = 1 /\ req.data = None)

C18_Witness ==
  /\ client.cls = HubSpaceCls
  /\ op.name = "post"
  /\ op.args.json_payload = Some(EmptyDict)
  /\ op.args.data = Some(<<>>)
  /\ out.exc = "ValueError"
  /\ sent = 0

(***************************************************************************)
(* The body of a Space request made from the command line.                 *)
(***************************************************************************)
\* the JSON body a request carries
JsonBody(v) ==
  /\ req.data = Some(Dumps(v))
  /\ HasHeader(req, "Content-Type")
  /\ req.headers["Content-Type"] = <<"application/json">>

\* C19: a run of "huggingface space" given both --payload and --payload-file (non-empty)
\* exits before any request; otherwise the request carries as JSON body the payload of
\* the file, else the inline payload, else the subcommand's template; with none of
\* these it carries {} when --allow-empty-payload is set and no body otherwise.
C19_PayloadPrecedence ==
  op.name = "cli space"
    => LET inline == TruthyText(op.args.payload)
           file == TruthyOpt(op.args.payload_file)
           template == TruthyOpt(op.args.payload_template)
       IN /\ (inline /\ file) => (out.kind = "raise" /\ out.exc = "SystemExit" /\ sent = 0)
          /\ sent = 1
               => IF file
                  THEN IsJson(op.args.file.body) /\ JsonBody(JsonLoads(op.args.file.body))
                  ELSE IF inline
                  THEN IsJson(op.args.payload[1]) /\ JsonBody(JsonLoads(op.args.payload[1]))
                  ELSE IF template
                  THEN /\ IsJson(op.args.template.body)
                       /\ JsonBody(JsonLoads(op.args.template.body))
                  ELSE IF op.args.allow_empty_payload THEN JsonBody(EmptyDict)
                  ELSE req.data = None /\ ~HasHeader(req, "Content-Type")

(***************************************************************************)
(* How a run of the command line ends.                                     *)
(***************************************************************************)
\* C15: a run of main that fails (an APIError from a client, a missing Cloudflare token,
\* a missing account id for a KV action, a malformed --payload, --payload-file or --query)
\* ends with SystemExit carrying a message, never with another exception; and a run
\* whose action failed does not end normally.
C15_FailuresExit ==
  (client.cls = CliCls /\ op.name # "")
    => /\ out.kind = "raise" => (out.exc = "SystemExit" /\ out.text # <<>>)
       /\ (sent = 0 \/ resp.k # "ok") => out.kind = "raise"

(***************************************************************************)
(* get_worker_service_script and the envelope.                             *)
(***************************************************************************)
\* C20: get_worker_service_script returns every 2xx body as text, unchanged, without JSON
\* parsing and without the envelope check: an envelope with success false is returned as
\* the script text, while every other operation of CloudflareClient answered by that
\* body raises APIError.
C20_ScriptVerbatim ==
  /\ (IsCf /\ op.name = "get_worker_service_script" /\ sent = 1 /\ resp.k = "ok")
       => out = Return(Str(resp.body))
  /\ (EnvelopeAnswered /\ JsonLoads(resp.body).success = "false")
       => (out.kind = "raise" /\ out.exc = "APIError")

====
